---- MODULE Spec2Model ----
(***************************************************************************)
(* Model of main.py: the /chat and /set_model handlers of the chat         *)
(* assistant, the process-wide conversation store and the process-wide     *)
(* active model.                                                            *)
(*                                                                          *)
(* Python lists are objects: conversation_contexts maps a user_id to a     *)
(* reference to a list, and the local `context` of a running request is a  *)
(* reference too.  The model keeps the lists in `heap` and the references  *)
(* in conversation_contexts and in the requests' frames, so that the       *)
(* in-place append (aliasing) and the re-binding done by reset and by      *)
(* truncation are both what they are in the code.                          *)
(*                                                                          *)
(* Handlers are coroutines on one event loop: code between two awaits runs *)
(* without interleaving.  chat_endpoint has one await (line 78), so it is  *)
(* two steps: ChatStart (lines 55-78, up to the await) and ChatFinishOk /  *)
(* ChatFinishFail (lines 79-89, after it).  set_model has none.            *)
(*                                                                          *)
(* generate_response (lines 91-107) stands for the external backend: the   *)
(* model takes both of its outcomes, a returned text and a raised          *)
(* exception.  (As written its body raises: line 106 uses asyncio, which   *)
(* main.py never imports; that is the exception outcome.)                  *)
(***************************************************************************)
EXTENDS Integers, Sequences, FiniteSets, TLC

\* ---------------------------------------------------------------- bounds
NumUsers == 2        \* distinct user_id values the clients use
MaxInFlight == 2     \* chat requests that can be awaiting generation at once
MaxChats == 11       \* chat requests received per user_id in one run
MaxDeviations == 2   \* events of one run other than a plain chat request of the
                     \* first user that runs alone and succeeds: a failed
                     \* generation, reset=true, a request received while another
                     \* is awaiting, a request of another user, a model field
                     \* that is not null, a set_model call

\* ------------------------------------------------------ program constants
MaxContext == 20     \* main.py:85-86  len(context) > 20, context[-20:]

None == "None"       \* Python None / JSON null of an Optional[str] field

llm_models == {"default", "advanced"}                 \* main.py:13-16

UserIds == [i \in 1..NumUsers |-> "u" \o ToString(i)]
UserId(i) == UserIds[i]
Users == {UserId(i) : i \in 1..NumUsers}
Reqs == 1..MaxInFlight
ModelFields == {None, "", "default", "advanced", "bogus"}   \* ChatRequest.model
ModelArgs == {"default", "advanced", "bogus"}               \* set_model's form field
Filenames == {"a.png"}                                      \* UploadFile.filename
\* how an upload ends: the file is written; an exception before the file is
\* opened (read, makedirs, open); an exception after it (write)
UploadOutcomes == {"saved", "failed_before_open", "failed_after_open"}

\* main.py:24-26
Message(role, content) == [role |-> role, content |-> content]

\* the text of the k-th chat request of a user, and the text generation
\* returns for it: the texts of one conversation are all distinct, so its
\* entries can be told apart
MessageTexts == [k \in 1..MaxChats |-> "m" \o ToString(k)]
ReplyTexts == [k \in 1..MaxChats |-> "r" \o ToString(k)]
MessageText(k) == MessageTexts[k]
ReplyText(k) == ReplyTexts[k]

\* references to list objects; NoRef: the key is not in the dict
NoRef == 0
Refs == 1..(NumUsers + MaxInFlight + 1)

VARIABLES
    current_model_name,      \* main.py:17
    conversation_contexts,   \* main.py:22   user_id -> reference, NoRef if absent
    heap,                    \* the list objects
    req,                     \* the frames of the running chat_endpoint calls
    response,                \* the response sent last, with what was stored then
    set_log,                 \* the set_model calls so far, in order, with their status
    uploads,                 \* the names of the files in the uploads directory
    plain,                   \* user_id -> every request for it so far ran alone,
                             \*            without reset, and (if over) succeeded
    track,                   \* user_id -> whether its requests ran one at a time,
                             \*            whether a generation failed since its list
                             \*            was last initialised, and the messages of
                             \*            its failed requests
    count                    \* how often each bounded event happened

vars == <<current_model_name, conversation_contexts, heap, req, response, set_log,
          uploads, plain, track, count>>

\* ---------------------------------------------------------------- helpers
Min(S) == CHOOSE x \in S : \A y \in S : x <= y

\* Python's s[-n:] for n >= 1: the last n entries, all of s when it has fewer
LastN(s, n) == IF Len(s) > n THEN SubSeq(s, Len(s) - n + 1, Len(s)) ELSE s

\* mutant: a request without a model always gets the initial model
SelectModel_Initial(model, current) == IF model \in {None, ""} THEN "default" ELSE model

\* main.py:57   request.model or current_model_name  (None and "" are falsy)
SelectModel(model, current) == IF model \in {None, ""} THEN current ELSE model

\* mutant: reset is ignored
NeedsInit_NoReset(user_id, reset) == conversation_contexts[user_id] = NoRef

\* main.py:61   user_id not in conversation_contexts or reset
NeedsInit(user_id, reset) == conversation_contexts[user_id] = NoRef \/ reset

\* mutant: the user message is not added to the list
AppendUser_Lost(context, message) == context

\* main.py:67   context.append(Message(role="user", content=message))
AppendUser(context, message) == Append(context, Message("user", message))

\* mutant: the assistant message is not added to the list
AppendAssistant_Lost(context, response_text) == context

\* mutant: the reply is added with the role user
AppendAssistant_WrongRole(context, response_text) ==
    Append(context, Message("user", response_text))

\* mutant: the assistant message is added twice
AppendAssistant_Twice(context, response_text) ==
    context \o <<Message("assistant", response_text), Message("assistant", response_text)>>

\* main.py:83   context.append(Message(role="assistant", content=response_text))
AppendAssistant(context, response_text) == Append(context, Message("assistant", response_text))

\* mutant: the list is never cut
NeedsTruncation_Never(context) == FALSE

\* main.py:85   len(context) > 20
NeedsTruncation(context) == Len(context) > MaxContext

\* mutant: the slice keeps the oldest entries, context[:20]
Truncated_Oldest(context) == SubSeq(context, 1, MaxContext)

\* mutant: the slice keeps the last 10, as the comment on line 84 says
Truncated_Ten(context) == LastN(context, 10)

\* main.py:86   context[-20:]
Truncated(context) == LastN(context, MaxContext)

\* main.py:70-74   the prompt, as the sequence of its lines (the text is the
\* lines joined by "\n"): one line per message, then "Assistant:"
Messages ==
    {Message("user", MessageText(k)) : k \in 1..MaxChats}
        \cup {Message("assistant", ReplyText(k)) : k \in 1..MaxChats}

PromptLines ==
    [msg \in Messages |->
        LET role == IF msg.role = "user" THEN "User" ELSE "Assistant"
        IN role \o ": " \o msg.content]

PromptLine(msg) == PromptLines[msg]

\* mutant: the closing "Assistant:" line is left out
BuildPrompt_NoCue(context) == [i \in 1..Len(context) |-> PromptLine(context[i])]

BuildPrompt(context) ==
    [i \in 1..(Len(context) + 1) |->
        IF i <= Len(context) THEN PromptLine(context[i]) ELSE "Assistant:"]

\* mutant: every name is accepted
Unsupported_Never(model_name) == FALSE

\* mutant: only the empty name is rejected
Unsupported_OnlyEmpty(model_name) == model_name = ""

\* main.py:43   model_name not in llm_models
Unsupported(model_name) == model_name \notin llm_models

\* mutant: the key is dropped instead of re-bound
StoreContext_Pop(cc, user_id, ref) == [cc EXCEPT ![user_id] = NoRef]

\* main.py:87   conversation_contexts[user_id] = context
StoreContext(cc, user_id, ref) == [cc EXCEPT ![user_id] = ref]

\* ------------------------------------------------------- frames and heap
NoCall == [prompt |-> <<>>, model_name |-> ""]

IdleFrame ==
    [pc |-> "idle", user_id |-> "", message |-> "", model |-> None, reset |-> FALSE,
     model_name |-> "", context |-> NoRef, call |-> NoCall,
     serial |-> 0, prev |-> <<>>, alone |-> FALSE, recv_set |-> 0]

NoResponse ==
    [endpoint |-> "none", status |-> 0, user_id |-> "", message |-> "", reset |-> FALSE,
     reply |-> "", context |-> <<>>, serial |-> 0, prev |-> <<>>, alone |-> FALSE,
     stored |-> <<>>, model_name |-> "", before |-> "", filename |-> ""]

Awaiting(rq) == {r \in Reqs : rq[r].pc = "awaiting"}

\* the lists something still refers to: the dict's values and the running frames' locals
Live(cc, rq) == ({cc[u] : u \in Users} \cup {rq[r].context : r \in Awaiting(rq)}) \ {NoRef}

\* References are kept up to renaming: which list is which object shows only in
\* who shares it with whom.  After every step the lists are numbered in the
\* order in which the dict's values (by user) and then the running frames'
\* locals (by frame) refer to them, and a list nothing refers to is gone.
Roots(cc, rq) ==
    [i \in 1..(NumUsers + MaxInFlight) |->
        IF i <= NumUsers THEN cc[UserId(i)]
        ELSE IF rq[i - NumUsers].pc = "awaiting" THEN rq[i - NumUsers].context
        ELSE NoRef]

\* the new number of every list that is referred to
Names(cc, rq) ==
    LET roots == Roots(cc, rq)
        First(o) == Min({i \in DOMAIN roots : roots[i] = o})
    IN [o \in Live(cc, rq) |-> Cardinality({roots[j] : j \in 1..First(o)} \ {NoRef})]

\* the dict cc, the frames rq and the lists h become the next state
\* (\E over a one-element set binds a value that is computed once)
Collect(h, cc, rq) ==
    \E name \in {Names(cc, rq)} :
        /\ conversation_contexts' =
              [u \in Users |-> IF cc[u] = NoRef THEN NoRef ELSE name[cc[u]]]
        /\ req' =
              [r \in Reqs |->
                  IF rq[r].pc = "awaiting" THEN [rq[r] EXCEPT !.context = name[@]]
                  ELSE rq[r]]
        /\ heap' =
              [n \in Refs |->
                  IF \E o \in DOMAIN name : name[o] = n
                  THEN h[CHOOSE o \in DOMAIN name : name[o] = n]
                  ELSE <<>>]

\* mutant: a new list is always the first object, also when it is in use
NewRef_First == Min(Refs)

\* the list a fresh [] or a slice is put in
NewRef == Min(Refs \ Live(conversation_contexts, req))

\* the sequence stored under user_id, empty when the key is absent
Stored(cc, h, user_id) == IF cc[user_id] = NoRef THEN <<>> ELSE h[cc[user_id]]

Conversation(user_id) == Stored(conversation_contexts, heap, user_id)

InFlightFor(user_id) == {r \in Awaiting(req) : req[r].user_id = user_id}

\* a new call of chat_endpoint runs in the first frame that is not in use
FreeFrame(r) ==
    /\ req[r].pc = "idle"
    /\ \A x \in Reqs : x < r => req[x].pc = "awaiting"

\* ------------------------------------------------------------------ Init
Init ==
    /\ current_model_name = "default"
    /\ conversation_contexts = [u \in Users |-> NoRef]
    /\ heap = [o \in Refs |-> <<>>]
    /\ req = [r \in Reqs |-> IdleFrame]
    /\ response = NoResponse
    /\ set_log = <<>>
    /\ uploads = {}
    /\ plain = [u \in Users |-> TRUE]
    /\ track = [u \in Users |-> [one_at_a_time |-> TRUE, broken |-> FALSE, failed |-> {}]]
    /\ count = [chat |-> [u \in Users |-> 0], deviations |-> 0]

\* what a chat request adds to the run's deviations
Deviations(user_id, model, reset) ==
    (IF reset THEN 1 ELSE 0) + (IF Awaiting(req) # {} THEN 1 ELSE 0)
    + (IF user_id # "u1" THEN 1 ELSE 0) + (IF model # None THEN 1 ELSE 0)

\* ----------------------------------------------------------- /set_model
\* main.py:38-48
SetModel(model_name) ==
    /\ count.deviations < MaxDeviations
    /\ count' = [count EXCEPT !.deviations = @ + 1]
    /\ IF Unsupported(model_name)
       THEN /\ response' = [NoResponse EXCEPT !.endpoint = "set_model", !.status = 400,
                               !.model_name = model_name, !.before = current_model_name]
            /\ set_log' = Append(set_log, [model_name |-> model_name, status |-> 400])
            /\ UNCHANGED current_model_name
       ELSE /\ current_model_name' = model_name
            /\ set_log' = Append(set_log, [model_name |-> model_name, status |-> 200])
            /\ response' = [NoResponse EXCEPT !.endpoint = "set_model", !.status = 200,
                               !.model_name = model_name, !.before = current_model_name]
    /\ UNCHANGED <<conversation_contexts, heap, req, uploads, plain, track>>

\* ---------------------------------------------------------------- /chat
\* main.py:55-78, up to the await: the request is received, the context is
\* initialised and the user message appended, the prompt is built and
\* generate_response is called with it
ChatStart(r, user_id, message, model, reset) ==
    /\ FreeFrame(r)
    /\ count.chat[user_id] < MaxChats
    /\ count.deviations + Deviations(user_id, model, reset) <= MaxDeviations
    /\ LET model_name == SelectModel(model, current_model_name)
           init == NeedsInit(user_id, reset)
           ref == IF init THEN NewRef ELSE conversation_contexts[user_id]
           cc1 == [conversation_contexts EXCEPT ![user_id] = ref]
           context == AppendUser(IF init THEN <<>> ELSE heap[ref], message)
           h1 == [heap EXCEPT ![ref] = context]
           others == InFlightFor(user_id)
           frame == [pc |-> "awaiting", user_id |-> user_id, message |-> message,
                     model |-> model, reset |-> reset, model_name |-> model_name,
                     context |-> ref,
                     call |-> [prompt |-> BuildPrompt(context), model_name |-> model_name],
                     serial |-> count.chat[user_id] + 1, prev |-> Conversation(user_id),
                     alone |-> others = {}, recv_set |-> Len(set_log)]
           rq1 == [x \in Reqs |->
                     IF x = r THEN frame
                     ELSE IF x \in others THEN [req[x] EXCEPT !.alone = FALSE]
                     ELSE req[x]]
       IN \E h \in {h1}, cc \in {cc1}, rq \in {rq1} : Collect(h, cc, rq)
    /\ count' = [count EXCEPT !.chat[user_id] = @ + 1,
                              !.deviations = @ + Deviations(user_id, model, reset)]
    /\ plain' = [plain EXCEPT ![user_id] = @ /\ ~reset /\ InFlightFor(user_id) = {}]
    /\ track' = [track EXCEPT
                    ![user_id].one_at_a_time = @ /\ InFlightFor(user_id) = {},
                    ![user_id].broken = @ /\ ~NeedsInit(user_id, reset)]
    /\ UNCHANGED <<current_model_name, response, set_log, uploads>>

\* mutant: the handler is never resumed after the call returned
ChatFinishOk_Never(r) == FALSE

\* main.py:78, 82-89: generate_response returned response_text
ChatFinishOk(r) ==
    /\ req[r].pc = "awaiting"
    /\ LET f == req[r]
           response_text == ReplyText(f.serial)
           appended == AppendAssistant(heap[f.context], response_text)
           h1 == [heap EXCEPT ![f.context] = appended]
           cut == NeedsTruncation(appended)
           new == NewRef
           h2 == IF cut THEN [h1 EXCEPT ![new] = Truncated(appended)] ELSE h1
           cc1 == IF cut THEN StoreContext(conversation_contexts, f.user_id, new)
                         ELSE conversation_contexts
           context == IF cut THEN new ELSE f.context
           rq1 == [req EXCEPT ![r] = IdleFrame]
       IN \E h \in {h2}, cc \in {cc1}, rq \in {rq1} :
          /\ Collect(h, cc, rq)
          /\ response' = [NoResponse EXCEPT !.endpoint = "chat", !.status = 200,
                             !.user_id = f.user_id, !.message = f.message,
                             !.reset = f.reset, !.reply = response_text,
                             !.context = h[context], !.serial = f.serial,
                             !.prev = f.prev, !.alone = f.alone,
                             !.stored = Stored(cc, h, f.user_id)]
    /\ UNCHANGED <<current_model_name, set_log, uploads, plain, track, count>>

\* main.py:78-80: generate_response raised, the request ends with status 500
ChatFinishFail(r) ==
    /\ req[r].pc = "awaiting"
    /\ count.deviations < MaxDeviations
    /\ count' = [count EXCEPT !.deviations = @ + 1]
    /\ LET f == req[r]
           rq1 == [req EXCEPT ![r] = IdleFrame]
       IN /\ \E rq \in {rq1} : Collect(heap, conversation_contexts, rq)
          /\ response' = [NoResponse EXCEPT !.endpoint = "chat", !.status = 500,
                             !.user_id = f.user_id, !.message = f.message,
                             !.reset = f.reset, !.serial = f.serial,
                             !.prev = f.prev, !.alone = f.alone,
                             !.stored = Stored(conversation_contexts, heap, f.user_id)]
          /\ plain' = [plain EXCEPT ![f.user_id] = FALSE]
          /\ track' = [track EXCEPT ![f.user_id].broken = TRUE,
                                    ![f.user_id].failed = @ \cup {f.message}]
    /\ UNCHANGED <<current_model_name, set_log, uploads>>

\* -------------------------------------------------------- /upload_media
\* main.py:109-122: the bytes are written under uploads/<filename>; any
\* exception ends the request with status 500
UploadMedia(filename, outcome) ==
    /\ count.deviations < MaxDeviations
    /\ count' = [count EXCEPT !.deviations = @ + 1]
    /\ uploads' = IF outcome = "failed_before_open" THEN uploads
                  ELSE uploads \cup {filename}
    /\ response' = [NoResponse EXCEPT !.endpoint = "upload_media",
                                      !.status = IF outcome = "saved" THEN 200 ELSE 500,
                                      !.filename = filename]
    /\ UNCHANGED <<current_model_name, conversation_contexts, heap, req, set_log, plain,
                   track>>

Next ==
    \/ \E model_name \in ModelArgs : SetModel(model_name)
    \/ \E filename \in Filenames, outcome \in UploadOutcomes : UploadMedia(filename, outcome)
    \/ \E user_id \in Users :
          \E message \in {MessageTexts[k] : k \in {count.chat[user_id] + 1} \cap 1..MaxChats} :
              \E r \in {x \in Reqs : FreeFrame(x)}, model \in ModelFields, reset \in BOOLEAN :
                  ChatStart(r, user_id, message, model, reset)
    \/ \E r \in Reqs : ChatFinishOk(r)
    \/ \E r \in Reqs : ChatFinishFail(r)

Spec == Init /\ [][Next]_vars

\* The event loop resumes a coroutine whose awaited call has returned or
\* raised; with every generation call taken to end one way or the other, no
\* request stays at the await for ever.
SpecFair == Spec /\ \A r \in Reqs : WF_vars(ChatFinishOk(r) \/ ChatFinishFail(r))

\* =================================================================== claims
ChatOk == response.endpoint = "chat" /\ response.status = 200
ChatFailed == response.endpoint = "chat" /\ response.status = 500
Modelless(r) == req[r].model = None \/ req[r].model = ""

\* e is the last n entries of full (all of full when it has fewer), in order
IsTailOf(e, full, n) ==
    /\ Len(e) = (IF Len(full) > n THEN n ELSE Len(full))
    /\ \A i \in 1..Len(e) : e[i] = full[Len(full) - Len(e) + i]

\* the model that was active after the first k set_model calls
ActiveAt(k) ==
    LET ok == {i \in 1..k : set_log[i].status = 200}
    IN IF ok = {} THEN "default"
       ELSE set_log[CHOOSE i \in ok : \A j \in ok : j <= i].model_name

\* C1: whenever no request for a user_id is in flight, the conversation
\* stored under it has at most 20 entries, whether the requests before
\* succeeded or failed.
C1_AtMost20 ==
    \A u \in Users : InFlightFor(u) = {} => Len(Conversation(u)) <= 20

C4_ResetLeavesOne ==
    [][\A r \in Reqs :
          req[r].pc = "idle" /\ req'[r].pc = "awaiting" /\ req'[r].reset =>
              Stored(conversation_contexts', heap', req'[r].user_id)
                  = <<Message("user", req'[r].message)>>]_vars

C4_Witness ==
    \E r \in Awaiting(req) :
        /\ req[r].reset /\ Len(req[r].prev) >= 2
        /\ Conversation(req[r].user_id) = <<Message("user", req[r].message)>>

\* C5: a chat request whose generation fails ends with an error and no
\* assistant message; with no other request for its user_id in flight, the
\* stored conversation is the sequence before the request (empty when absent
\* or reset=true) followed by exactly {user, message}.
C5_FailureKeepsUserMessage ==
    ChatFailed =>
        /\ response.reply = "" /\ response.context = <<>>
        /\ response.alone =>
              response.stored =
                  Append(IF response.reset THEN <<>> ELSE response.prev,
                         Message("user", response.message))

C5_Witness ==
    /\ ChatFailed /\ response.alone /\ ~response.reset
    /\ Len(response.prev) >= 2
    /\ response.stored = Append(response.prev, Message("user", response.message))

\* C6: when a chat request completes successfully, the conversation stored
\* under its user_id at that moment is non-empty and ends with an assistant
\* entry, whatever other requests ran meanwhile.
C6_LastIsAssistant ==
    ChatOk =>
        /\ response.stored # <<>>
        /\ response.stored[Len(response.stored)].role = "assistant"

\* C7: when a chat request returns successfully, the sequence stored under
\* its user_id at that moment is the context it returns.
C7_StoredIsReturned ==
    ChatOk => response.stored = response.context

\* C8: set_model with a name outside {default, advanced} fails and leaves
\* the active model unchanged, and a chat request without a model received
\* after it passes to generation the model active before the failed call.
C8_RejectedLeavesModel ==
    response.endpoint = "set_model" /\ response.model_name \notin {"default", "advanced"} =>
        /\ response.status = 400
        /\ current_model_name = response.before
        /\ \A r \in Awaiting(req) :
              Modelless(r) /\ req[r].recv_set = Len(set_log) =>
                  req[r].call.model_name = response.before

C8_Witness ==
    /\ response.endpoint = "set_model" /\ response.status = 400
    /\ response.before = "advanced"
    /\ \E r \in Awaiting(req) :
          /\ req[r].model = None /\ req[r].recv_set = Len(set_log)
          /\ req[r].call.model_name = "advanced"

\* C9: a chat request without a model passes to generation the model that
\* was active when the request was received: the one set by the last
\* successful set_model before it (default if none), also when set_model
\* succeeds while the request is awaiting generation.
C9_ModelAtReceipt ==
    \A r \in Awaiting(req) :
        Modelless(r) => req[r].call.model_name = ActiveAt(req[r].recv_set)

\* received after set_model(advanced); set_model(default) ran during the await
C9_Witness ==
    \E r \in Awaiting(req) :
        /\ req[r].model = None /\ req[r].recv_set < Len(set_log)
        /\ req[r].call.model_name = "advanced"
        /\ current_model_name = "default"

\* C10: the model name a chat request passes to generation is in
\* {default, advanced}, whatever the request's model field holds.
C10_ModelListed ==
    \A r \in Awaiting(req) : req[r].call.model_name \in {"default", "advanced"}

\* the line a message is to give in the prompt
ExpectedLines ==
    [msg \in Messages |->
        (IF msg.role = "user" THEN "User: " ELSE "Assistant: ") \o msg.content]

\* C11: the prompt a chat request passes to generation has one line
\* "<Role label>: <content>" for every message of its user's sequence at that
\* moment, in order, then the line "Assistant:"; its last message line is
\* "User: <message>" of this request, in every interleaving.
C11_PromptOfSequence ==
    [][\A r \in Reqs :
          req[r].pc = "idle" /\ req'[r].pc = "awaiting" =>
              LET seq == Stored(conversation_contexts', heap', req'[r].user_id)
                  prompt == req'[r].call.prompt
              IN /\ Len(prompt) = Len(seq) + 1
                 /\ \A i \in 1..Len(seq) : prompt[i] = ExpectedLines[seq[i]]
                 /\ prompt[Len(prompt)] = "Assistant:"
                 /\ prompt[Len(seq)] = ExpectedLines[Message("user", req'[r].message)]]_vars

\* a request received while another one of the same user is awaiting
C11_Witness ==
    \E r \in Awaiting(req) :
        /\ ~req[r].alone /\ req[r].serial >= 2
        /\ Len(req[r].call.prompt) >= 4
        /\ req[r].call.prompt[Len(req[r].call.prompt)] = "Assistant:"
        /\ req[r].call.prompt[Len(req[r].call.prompt) - 1]
              = ExpectedLines[Message("user", req[r].message)]

\* msg is an entry of the sequence s
Holds(s, msg) == \E i \in 1..Len(s) : s[i] = msg

\* C12: chat requests for one user_id that overlap at the await can lose an
\* update: a message a request appended is missing from the stored
\* conversation although truncation would keep it and no reset=true request
\* started after it was appended.  It happens (the witness), and it happens
\* only to a request that overlapped another one for its user_id.
C12_LostOnlyWhenOverlapping ==
    ChatOk /\ (\/ ~Holds(response.stored, Message("assistant", response.reply))
               \/ ~Holds(response.stored, Message("user", response.message)))
        => ~response.alone

\* the reply appended in this very step is not stored, and the stored
\* sequence is short of the limit
C12_Witness ==
    /\ ChatOk /\ ~response.alone
    /\ ~Holds(response.stored, Message("assistant", response.reply))
    /\ Len(response.stored) < 20
    /\ Holds(response.context, Message("assistant", response.reply))

\* C13: a chat request appends exactly one user message and calls generation
\* once; when the call returns it appends exactly one assistant message, when
\* the call fails it appends nothing, is not retried and ends with the error.
C13_OneMessageOneCall ==
    [][\A r \in Reqs :
          /\ req[r].pc = "idle" /\ req'[r].pc = "awaiting" =>
                LET u == req'[r].user_id
                    before == IF conversation_contexts[u] = NoRef \/ req'[r].reset
                              THEN <<>> ELSE Conversation(u)
                IN /\ Stored(conversation_contexts', heap', u)
                        = Append(before, Message("user", req'[r].message))
                   /\ req'[r].call # NoCall
          /\ req[r].pc = "awaiting" /\ req'[r].pc = "awaiting" =>
                req'[r].call = req[r].call /\ req'[r].serial = req[r].serial
          /\ req[r].pc = "awaiting" /\ req'[r].pc = "idle" =>
                /\ response'.endpoint = "chat"
                /\ response'.user_id = req[r].user_id /\ response'.serial = req[r].serial
                /\ \/ /\ response'.status = 200
                      /\ response'.context =
                            LastN(Append(heap[req[r].context],
                                         Message("assistant", response'.reply)), 20)
                   \/ /\ response'.status = 500
                      /\ response'.reply = "" /\ response'.context = <<>>
                      /\ \A u \in Users :
                            Stored(conversation_contexts', heap', u) = Conversation(u)]_vars

\* a request failed while another one of its user was awaiting
C13_Witness ==
    /\ ChatFailed /\ ~response.alone
    /\ Len(response.stored) >= 2
    /\ \E r \in Awaiting(req) : req[r].user_id = response.user_id

\* C14: once the store holds a conversation for a user_id it holds one in
\* every later state: no chat (with or without reset, failed or not), no
\* set_model and no upload removes a key.
C14_KeyStays ==
    [][\A u \in Users :
          conversation_contexts[u] # NoRef => conversation_contexts'[u] # NoRef]_vars

\* the key is still there after a reset=true request and an upload
C14_Witness ==
    /\ response.endpoint = "upload_media"
    /\ conversation_contexts["u1"] # NoRef
    /\ \E r \in Awaiting(req) :
          req[r].user_id = "u1" /\ req[r].reset /\ req[r].prev # <<>>

\* C15: a chat request answers (reply or error) only when its generation call
\* has returned or failed, there being no timeout and no cancellation; when
\* every call ends, every request completes; a request whose call has not
\* ended stays at the await while other requests are served.
C15_CompletesWithGeneration ==
    /\ [][\A r \in Reqs :
             req[r].pc = "awaiting" /\ req'[r].pc # "awaiting" =>
                 /\ response'.endpoint = "chat"
                 /\ response'.user_id = req[r].user_id
                 /\ response'.serial = req[r].serial
                 /\ response'.status \in {200, 500}
                 /\ response'.status = 200 <=> response'.reply = ReplyTexts[req[r].serial]]_vars
    /\ \A r \in Reqs : (req[r].pc = "awaiting") ~> (req[r].pc = "idle")

\* a request is still at the await after a request received later was answered
C15_Witness ==
    \E r \in Awaiting(req) :
        /\ ChatOk /\ response.user_id = req[r].user_id
        /\ response.serial > req[r].serial

\* C16: in every interleaving the context a successful chat request returns
\* has between 2 and 20 entries, its last entry is {assistant, reply} with the
\* reply text that is returned, and the entries before it are there in the
\* order they were appended (the request's own user message, when it is
\* still there, comes before the reply).
C16_ReturnedContextWellFormed ==
    ChatOk =>
        /\ Len(response.context) >= 2 /\ Len(response.context) <= 20
        /\ response.context[Len(response.context)] = Message("assistant", response.reply)
        /\ response.reply = ReplyTexts[response.serial]
        /\ \A i \in 1..Len(response.context) :
              response.context[i] = Message("user", response.message)
                  => i < Len(response.context)
        /\ \A i, j \in 1..Len(response.context) :
              i < j /\ response.context[i].role = "user" /\ response.context[j].role = "user"
                  => response.context[i].content # response.context[j].content

\* the returned context is within the bound and ends with the reply while
\* the stored conversation at that moment does not
C16_Witness ==
    /\ ChatOk /\ ~response.alone
    /\ response.stored # response.context
    /\ response.stored[Len(response.stored)].role = "user"
    /\ Len(response.context) >= 2

\* the user_id of the chat request that moves in this step at frame r
Acting(r) == IF req[r].pc = "idle" THEN req'[r].user_id ELSE req[r].user_id

\* C17: a step of a chat request for user_id A leaves the conversation
\* stored under every other user_id B as it was (entries and presence of the
\* key), whether the step receives, resets, truncates, completes or fails;
\* a step in which no chat request moves (set_active_model, upload) changes
\* no stored conversation.
C17_OtherUsersUntouched ==
    [][\A B \in Users :
          (\A r \in Reqs : req'[r].pc # req[r].pc => Acting(r) # B) =>
              /\ Stored(conversation_contexts', heap', B) = Conversation(B)
              /\ (conversation_contexts'[B] = NoRef) <=> (conversation_contexts[B] = NoRef)]_vars

\* user u2 has a conversation while a request of u1 has failed
C17_Witness ==
    /\ ChatFailed /\ response.user_id = UserId(1)
    /\ Len(Conversation(UserId(2))) >= 2
    /\ Len(Conversation(UserId(1))) >= 1

\* C18: the process-wide active model name starts as default and is a
\* member of {default, advanced} in every reachable state; a step changes it
\* only when it is a set_active_model call that answers 200 for a listed
\* name, which becomes the new value; no step of a chat request (with or
\* without an explicit model) and no upload changes it.
C18_ActiveModelListed ==
    /\ current_model_name = "default"
    /\ [](current_model_name \in {"default", "advanced"})
    /\ [][/\ current_model_name' # current_model_name =>
                /\ response'.endpoint = "set_model" /\ response'.status = 200
                /\ response'.model_name = current_model_name'
                /\ response'.before = current_model_name
                /\ current_model_name' \in llm_models
                /\ Len(set_log') = Len(set_log) + 1
          /\ (\E r \in Reqs : req'[r].pc # req[r].pc) =>
                current_model_name' = current_model_name]_vars

\* the active model was set to advanced, and a chat request received after
\* that with the explicit model default is in flight
C18_Witness ==
    /\ current_model_name = "advanced"
    /\ \E r \in Awaiting(req) :
          /\ req[r].model = "default" /\ req[r].model_name = "default"
          /\ req[r].recv_set >= 1

\* even length, roles user, assistant, user, assistant, ... starting with user
WellFormed(context) ==
    /\ Len(context) % 2 = 0
    /\ \A i \in 1..Len(context) :
          context[i].role = IF i % 2 = 1 THEN "user" ELSE "assistant"

\* the user message of a request whose generation failed is in the list
HoldsFailed(u, context) ==
    \E i \in 1..Len(context) :
        context[i].role = "user" /\ context[i].content \in track[u].failed

\* C19 as stated: when the chat requests for a user_id run one at a time, its
\* stored conversation between requests has even length and alternates user,
\* assistant, ... exactly when no generation has failed since the list was
\* last initialised (a failure breaks the alternation until a reset).
C19_BrokenUntilReset ==
    \A u \in Users :
        track[u].one_at_a_time /\ InFlightFor(u) = {} =>
            (WellFormed(Conversation(u)) <=> ~track[u].broken)

\* C19 amended: when the chat requests for a user_id run one at a time, its
\* stored conversation between requests has even length and alternates user,
\* assistant, ... (also after truncation to 20) if no generation has failed
\* since the list was last initialised, and more exactly if and only if it
\* holds no user message of a failed request: a failure breaks the
\* alternation until a reset or until truncation has dropped that message.
C19_BrokenWhileFailedStored ==
    \A u \in Users :
        track[u].one_at_a_time /\ InFlightFor(u) = {} =>
            /\ ~track[u].broken => WellFormed(Conversation(u))
            /\ WellFormed(Conversation(u)) <=> ~HoldsFailed(u, Conversation(u))

\* one at a time, a failed request's message is still stored after the list
\* was truncated to 20, and the list starts with an assistant entry
C19_Witness ==
    \E u \in Users :
        /\ track[u].one_at_a_time /\ InFlightFor(u) = {} /\ track[u].broken
        /\ Len(Conversation(u)) = 20
        /\ Conversation(u)[1].role = "assistant"
        /\ HoldsFailed(u, Conversation(u))
        /\ ChatOk /\ response.user_id = u

====
